---- MODULE Spec2Model ----
(***************************************************************************)
(* Model of the local data store of the Signia intranet                    *)
(* (src/services/db.ts): the Dexie database with its eight collections,    *)
(* initDB (open + seed), backupDatabase, restoreDatabase and the api       *)
(* service layer.  Dexie/IndexedDB are modelled by their contract: a       *)
(* primary key is unique in its table, add/bulkAdd reject on an existing   *)
(* key, a transaction body that throws aborts the transaction, and every   *)
(* operation issued outside a transaction is its own transaction.          *)
(***************************************************************************)
EXTENDS Integers, Sequences, FiniteSets, TLC

----------------------------------------------------------------------------
(* Bounds of the exploration *)

\* initDB calls that may run, one beside the other
MaxInitCalls == 2

\* calls of initDB, backupDatabase, restoreDatabase and api made in one run
MaxOps == 3

----------------------------------------------------------------------------
(* The schema: src/services/db.ts:22-53 *)

TargetVersion == 3

\* super('SigniaIntranetDB')
DBName == "SigniaIntranetDB"

\* the order in which initDB, backupDatabase and restoreDatabase walk the tables
TxTables ==
    << "employees", "banners", "posts", "resources",
       "wiki", "apps", "marketingAssets", "patchNotes" >>

NumTables == Len(TxTables)

TableNames == { TxTables[k] : k \in 1..NumTables }

\* primary key path of a table: 'id, ...' for seven tables, 'version' for patchNotes
KeyPath(t) == IF t = "patchNotes" THEN "version" ELSE "id"

HasKey(t, d) == KeyPath(t) \in DOMAIN d

KeyOf(t, d) == d[KeyPath(t)]

KeysOf(t, rows) == { KeyOf(t, d) : d \in rows }

\* the versions declared by version(n).stores(...), in the order of db.ts:26-43
Versions == << 1, 2, 3 >>

\* mutation of UpgradeSteps: every declared version is applied again
UpgradeStepsAll(v) == Versions

\* the declarations db.open() applies to a database persisted at version v:
\* those of a higher version, in ascending order, in one versionchange
\* transaction
UpgradeSteps(v) == SelectSeq(Versions, LAMBDA n : n > v)

\* mutation of Open: every open writes a new schema version
OpenBump(v) == v + 1

\* db.open(): brings the persisted schema version to the declared one
Open(v) == IF v < TargetVersion THEN TargetVersion ELSE v

----------------------------------------------------------------------------
(* The bootstrap dataset: src/services/mockData.ts.  A document keeps its  *)
(* key and the fields the program branches on; v stands for the rest of    *)
(* its content.                                                            *)

INITIAL_EMPLOYEES ==
    << [id |-> "1", v |-> "seed"],
       [id |-> "2", v |-> "seed", reportsTo |-> "1"],
       [id |-> "3", v |-> "seed", reportsTo |-> "1"],
       [id |-> "4", v |-> "seed", reportsTo |-> "2"],
       [id |-> "5", v |-> "seed", reportsTo |-> "3"],
       [id |-> "6", v |-> "seed", reportsTo |-> "1"] >>

INITIAL_BANNERS ==
    << [id |-> "b1", v |-> "seed", active |-> TRUE, order |-> 1],
       [id |-> "b2", v |-> "seed", active |-> TRUE, order |-> 2] >>

INITIAL_POSTS ==
    << [id |-> "p1", v |-> "seed"], [id |-> "p2", v |-> "seed"],
       [id |-> "p3", v |-> "seed"] >>

INITIAL_RESOURCES ==
    << [id |-> "r1", v |-> "seed"], [id |-> "r2", v |-> "seed"],
       [id |-> "r3", v |-> "seed"] >>

INITIAL_WIKI ==
    << [id |-> "w1", v |-> "seed"], [id |-> "w2", v |-> "seed"],
       [id |-> "w3", v |-> "seed"] >>

INITIAL_APPS ==
    << [id |-> "a1", v |-> "seed"], [id |-> "a2", v |-> "seed"],
       [id |-> "a3", v |-> "seed"], [id |-> "a4", v |-> "seed"] >>

INITIAL_MARKETING ==
    << [id |-> "m1", v |-> "seed"], [id |-> "m2", v |-> "seed"] >>

INITIAL_PATCH_NOTES ==
    << [version |-> "1.1.5", date |-> "today", v |-> "seed"],
       [version |-> "1.1.4", date |-> "today", v |-> "seed"],
       [version |-> "1.1.3", date |-> "2023-10-31", v |-> "seed"],
       [version |-> "1.1.2", date |-> "2023-10-30", v |-> "seed"],
       [version |-> "1.1.1", date |-> "2023-10-29", v |-> "seed"],
       [version |-> "1.1.0", date |-> "2023-10-29", v |-> "seed"],
       [version |-> "1.0.0", date |-> "2023-10-28", v |-> "seed"] >>

\* the imports of db.ts:6-10, by the table each one is loaded into
InitialData ==
    [ employees |-> INITIAL_EMPLOYEES, banners |-> INITIAL_BANNERS,
      posts |-> INITIAL_POSTS, resources |-> INITIAL_RESOURCES,
      wiki |-> INITIAL_WIKI, apps |-> INITIAL_APPS,
      marketingAssets |-> INITIAL_MARKETING,
      patchNotes |-> INITIAL_PATCH_NOTES ]

Range(f) == { f[x] : x \in DOMAIN f }

EmptyStore == [ t \in TableNames |-> {} ]

----------------------------------------------------------------------------
(* Dexie table primitives *)

\* table.count()
Count(s, t) == Cardinality(s[t])

RECURSIVE BulkAddFrom(_, _, _, _, _)
BulkAddFrom(t, rows, docs, k, ok) ==
    IF k > Len(docs) THEN [ok |-> ok, rows |-> rows]
    ELSE IF HasKey(t, docs[k]) /\ KeyOf(t, docs[k]) \notin KeysOf(t, rows)
         THEN BulkAddFrom(t, rows \cup {docs[k]}, docs, k + 1, ok)
         ELSE BulkAddFrom(t, rows, docs, k + 1, FALSE)

\* mutation of BulkAdd: keys are generated, so that every document is stored
\* as a new row whatever the table holds (gen stands for the generated key)
BulkAddNoKey(t, rows, docs) ==
    [ok |-> TRUE,
     rows |-> rows \cup { [ f \in DOMAIN d \cup {"gen"} |->
                             IF f = "gen" THEN Cardinality(rows) ELSE d[f] ]
                         : d \in Range(docs) }]

\* table.bulkAdd(docs): every document whose key is free is added; the call
\* rejects when a document has no key or its key is taken
BulkAdd(t, rows, docs) == BulkAddFrom(t, rows, docs, 1, TRUE)

\* mutation of Add: the document replaces the one that has its key
AddOverwrite(t, rows, doc) ==
    [ok |-> TRUE, rows |-> { d \in rows : KeyOf(t, d) # KeyOf(t, doc) } \cup {doc}]

\* table.add(doc)
Add(t, rows, doc) == BulkAdd(t, rows, << doc >>)

\* table.delete(key)
Delete(t, rows, key) == { d \in rows : KeyOf(t, d) # key }

\* the document after Dexie's update(key, changes): changed fields replaced
Modified(d, changes) ==
    [ f \in DOMAIN d \cup DOMAIN changes |->
        IF f \in DOMAIN changes THEN changes[f] ELSE d[f] ]

\* table.update(key, changes): resolves with the number of updated documents
Update(t, rows, key, changes) ==
    [ n |-> Cardinality({ d \in rows : KeyOf(t, d) = key }),
      rows |-> { IF KeyOf(t, d) = key THEN Modified(d, changes) ELSE d
                 : d \in rows } ]

\* mutation of Transaction: an aborted transaction keeps what its body wrote
TransactionNoRollback(s, r) == r.st

\* db.transaction('rw', tables, body): commits what the body wrote when the
\* body resolved, and rolls everything back when it threw
Transaction(s, r) == IF r.ok THEN r.st ELSE s

----------------------------------------------------------------------------
(* Seeding: src/services/db.ts:65-83 *)

\* self.findIndex(t => t.version === version), 1-based
FindIndex(self, version) ==
    CHOOSE j \in 1..Len(self) :
        /\ self[j].version = version
        /\ \A m \in 1..(j - 1) : self[m].version # version

RECURSIVE FilterFirst(_, _)
FilterFirst(self, k) ==
    IF k > Len(self) THEN << >>
    ELSE (IF k = FindIndex(self, self[k].version) THEN << self[k] >> ELSE << >>)
         \o FilterFirst(self, k + 1)

\* uniqueNotes of db.ts:77-79: the first note of every version
UniqueNotes(notes) == FilterFirst(notes, 1)

\* the rows initDB hands to bulkAdd for table t
SeedRows(data, t) ==
    IF t = "patchNotes" THEN UniqueNotes(data[t]) ELSE data[t]

RECURSIVE SeedFrom(_, _, _)
SeedFrom(s, data, k) ==
    IF k > NumTables THEN [ok |-> TRUE, st |-> s]
    ELSE LET t == TxTables[k]
             r == BulkAdd(t, s[t], SeedRows(data, t))
             s2 == [s EXCEPT ![t] = r.rows]
         IN  IF r.ok THEN SeedFrom(s2, data, k + 1)
             ELSE [ok |-> FALSE, st |-> s2]

\* the body of the seeding transaction: eight awaited bulkAdds, the first
\* rejection leaves the body
SeedBody(s, data) == SeedFrom(s, data, 1)

\* mutation of InitDBStore: no emptiness guard, and every run stores the
\* bootstrap rows as new documents (gen stands for a generated key part)
InitDBStoreAppend(s, data, n) ==
    [ t \in TableNames |->
        s[t] \cup { Modified(d, [gen |-> Count(s, t)])
                    : d \in Range(SeedRows(data, t)) } ]

\* mutation of InitDBStore: the seeding transaction runs whatever the count
InitDBStoreNoGuard(s, data, n) == Transaction(s, SeedBody(s, data))

\* the store initDB leaves behind, given the employee count it read
InitDBStore(s, data, n) ==
    IF n = 0 THEN Transaction(s, SeedBody(s, data)) ELSE s

\* what initDB writes to the console for that run
InitDBLog(s, data, n) ==
    IF n = 0
    THEN (IF SeedBody(s, data).ok THEN "seeded" ELSE "failed")
    ELSE "skipped"

----------------------------------------------------------------------------
(* JSON: a value is a string, a number, an array of documents or undefined; *)
(* an object literal is the sequence of its properties; a text is what      *)
(* JSON.stringify wrote, or something JSON.parse rejects.                   *)

JStr(x) == [kind |-> "str", s |-> x, a |-> << >>, n |-> 0]

JNum(x) == [kind |-> "num", s |-> "", a |-> << >>, n |-> x]

JArr(x) == [kind |-> "arr", s |-> "", a |-> x, n |-> 0]

Undefined == [kind |-> "undefined", s |-> "", a |-> << >>, n |-> 0]

Prop(name, val) == [name |-> name, val |-> val]

\* JSON.stringify(obj): properties in insertion order, undefined ones dropped
JSONStringify(obj) ==
    [valid |-> TRUE,
     fields |-> SelectSeq(obj, LAMBDA p : p.val.kind # "undefined")]

NotJSON == [valid |-> FALSE, fields |-> << >>]

LastIndex(fields, name) ==
    CHOOSE j \in 1..Len(fields) :
        /\ fields[j].name = name
        /\ \A m \in (j + 1)..Len(fields) : fields[m].name # name

\* JSON.parse(text): throws on a malformed text; a repeated property keeps
\* its last value
JSONParse(text) ==
    [ok |-> text.valid,
     data |-> [ name \in { text.fields[j].name : j \in 1..Len(text.fields) } |->
                  text.fields[LastIndex(text.fields, name)].val ]]

\* data.name
Get(data, name) == IF name \in DOMAIN data THEN data[name] ELSE Undefined

\* truthiness of a value: an array is truthy even when empty
Truthy(val) ==
    CASE val.kind = "str" -> val.s # ""
      [] val.kind = "num" -> val.n # 0
      [] val.kind = "arr" -> TRUE
      [] OTHER -> FALSE

\* val?.length is truthy
HasLength(val) ==
    CASE val.kind = "str" -> val.s # ""
      [] val.kind = "arr" -> Len(val.a) > 0
      [] OTHER -> FALSE

----------------------------------------------------------------------------
(* Backup and restore: src/services/db.ts:90-149 *)

RECURSIVE SetToSeq(_)
SetToSeq(S) ==
    IF S = {} THEN << >>
    ELSE LET x == CHOOSE y \in S : TRUE
         IN  << x >> \o SetToSeq(S \ {x})

\* table.toArray(): the documents of the table, one after the other
ToArray(s, t) == SetToSeq(s[t])

\* new Date().toISOString()
Timestamp == "2026-01-01T00:00:00.000Z"

\* mutation of BackupObject: the last table is left out of the snapshot
BackupObjectShort(reads) ==
    [ k \in 1..(NumTables - 1) |-> Prop(TxTables[k], JArr(reads[k])) ]
    \o << Prop("timestamp", JStr(Timestamp)),
          Prop("schemaVersion", JNum(3)) >>

\* the object literal of db.ts:92-103, from the eight arrays read
BackupObject(reads) ==
    [ k \in 1..NumTables |-> Prop(TxTables[k], JArr(reads[k])) ]
    \o << Prop("timestamp", JStr(Timestamp)),
          Prop("schemaVersion", JNum(3)) >>

\* mutation of ValidBackup: nothing is validated
ValidBackupAnything(data) == TRUE

\* db.ts:114, the snapshots restoreDatabase does not throw on
ValidBackup(data) ==
    Truthy(Get(data, "timestamp")) /\ Truthy(Get(data, "employees"))

\* mutation of RestoreFrom: the table is not cleared before it is loaded
RECURSIVE RestoreFromMerge(_, _, _)
RestoreFromMerge(s, data, k) ==
    IF k > NumTables THEN [ok |-> TRUE, st |-> s]
    ELSE LET t == TxTables[k]
             val == Get(data, t)
             docs == IF val.kind = "arr" THEN val.a ELSE << >>
             s2 == [s EXCEPT ![t] = s[t] \cup Range(docs)]
         IN  RestoreFromMerge(s2, data, k + 1)

RECURSIVE RestoreFrom(_, _, _)
RestoreFrom(s, data, k) ==
    IF k > NumTables THEN [ok |-> TRUE, st |-> s]
    ELSE LET t == TxTables[k]
             val == Get(data, t)
             cleared == [s EXCEPT ![t] = {}]
         IN  IF ~HasLength(val) THEN RestoreFrom(cleared, data, k + 1)
             ELSE IF val.kind # "arr" THEN [ok |-> FALSE, st |-> cleared]
             ELSE LET r == BulkAdd(t, {}, val.a)
                      s2 == [s EXCEPT ![t] = r.rows]
                  IN  IF r.ok THEN RestoreFrom(s2, data, k + 1)
                      ELSE [ok |-> FALSE, st |-> s2]

\* the body of the restore transaction, db.ts:118-143: clear and reload the
\* eight tables in turn, the first rejection leaves the body
RestoreBody(s, data) == RestoreFrom(s, data, 1)

----------------------------------------------------------------------------
(* The live queries of useAppController: src/App.tsx:71-84.  useLiveQuery   *)
(* is modelled by its contract: the querier is executed when the component *)
(* subscribes and again after every committed write that touched a table   *)
(* it read; an execution is one read of the committed table, and its       *)
(* result is handed to the component.                                      *)

\* the tables useAppController subscribes to, in the order of its
\* useLiveQuery calls
LiveOrder ==
    << "employees", "banners", "posts", "resources",
       "wiki", "apps", "patchNotes", "marketingAssets" >>

LiveTables == Range(LiveOrder)

\* the place of the subscription to table t among the eight
LivePlace(t) == CHOOSE k \in 1..Len(LiveOrder) : LiveOrder[k] = t

\* the dates of the documents, in ascending order of localeCompare; "today"
\* stands for new Date().toISOString().split('T')[0]
DateOrder == << "2023-10-28", "2023-10-29", "2023-10-30", "2023-10-31", "today" >>

DateRank(date) == CHOOSE k \in 1..Len(DateOrder) : DateOrder[k] = date

\* b.date.localeCompare(a.date) of App.tsx:81 throws a TypeError when b has
\* no date; sort calls it as soon as there are two notes
SortThrows(notes) ==
    Len(notes) >= 2 /\ \E k \in 1..Len(notes) : "date" \notin DOMAIN notes[k]

\* the note put into a list that is sorted by descending date, behind the
\* notes of the same date
InsertNote(sorted, note) ==
    LET before == SelectSeq(sorted, LAMBDA d : DateRank(d.date) >= DateRank(note.date))
        after == SelectSeq(sorted, LAMBDA d : DateRank(d.date) < DateRank(note.date))
    IN  before \o << note >> \o after

RECURSIVE SortFrom(_, _, _)
SortFrom(notes, k, sorted) ==
    IF k > Len(notes) THEN sorted
    ELSE SortFrom(notes, k + 1, InsertNote(sorted, notes[k]))

\* notes.sort((a, b) => b.date.localeCompare(a.date)): latest first
SortByDateDesc(notes) ==
    IF Len(notes) < 2 THEN notes ELSE SortFrom(notes, 1, << >>)

\* the querier of the subscription to table t, executed on the store s:
\* toArray() for seven tables, toArray() and the sort for patchNotes
Querier(t, s) ==
    IF t = "patchNotes"
    THEN (IF SortThrows(ToArray(s, t))
          THEN [ok |-> FALSE, val |-> << >>]
          ELSE [ok |-> TRUE, val |-> SortByDateDesc(ToArray(s, t))])
    ELSE [ok |-> TRUE, val |-> ToArray(s, t)]

\* a subscription that has not executed its querier yet: the component
\* renders useLiveQuery(...) || [], an execution is due
Subscribed ==
    [has |-> FALSE, res |-> << >>, due |-> TRUE, err |-> FALSE, fired |-> 0]

\* mutation of Notified: no commit makes a subscription execute again
NotifiedNever(sub, t, touched) == sub

\* the subscription to table t after a commit that wrote to the tables
\* touched: its querier is due again when t is among them; fired counts the
\* results delivered since the last such commit
Notified(sub, t, touched) ==
    IF t \in touched THEN [sub EXCEPT !.due = TRUE, !.fired = 0] ELSE sub

----------------------------------------------------------------------------
(* Inputs of the operations *)

InitCalls == 1..MaxInitCalls

\* the tables the api calls are tried on; "nope" is not a table of db
ApiTables == {"posts", "nope"}

\* the table strings the generic calls are tried on: a table, a name db has
\* no property of, and a name under which db has a property that is no table
\* (db.constructor is the class SigniaDatabase)
GenericTables == ApiTables \cup {"constructor"}

\* a key of the bootstrap data and a key that is not in it
KeyInputs(t) ==
    CASE t = "employees" -> {"1", "e9"}
      [] t = "banners" -> {"b1", "b9"}
      [] t = "posts" -> {"p1", "p9"}
      [] t = "patchNotes" -> {"1.1.5", "9.9.9"}
      [] t = "constructor" -> {DBName, "x1"}
      [] OTHER -> {"x1"}

\* a document as the admin forms build it
NewDoc(t, key) ==
    CASE t = "banners" -> [id |-> key, v |-> "new", active |-> TRUE, order |-> 3]
      [] t = "patchNotes" -> [version |-> key, date |-> "today", v |-> "new"]
      [] OTHER -> [id |-> key, v |-> "new"]

Emp(key) == [id |-> key, v |-> "file"]

Obj(props) == JSONStringify(props)

\* the files handed to restoreDatabase
RestoreTexts ==
    { NotJSON,
      Obj(<< >>),
      Obj(<< Prop("employees", JArr(<< >>)) >>),
      Obj(<< Prop("employees", JArr(<< Emp("7") >>)) >>),
      Obj(<< Prop("timestamp", JStr("t")) >>),
      Obj(<< Prop("timestamp", JStr("t")), Prop("employees", JArr(<< >>)) >>),
      Obj(<< Prop("timestamp", JStr("t")), Prop("employees", JArr(<< >>)),
             Prop("banners", JArr(<< NewDoc("banners", "b1") >>)) >>),
      Obj(<< Prop("timestamp", JStr("t")),
             Prop("employees", JArr(<< Emp("7"), Emp("8") >>)),
             Prop("posts", JArr(<< NewDoc("posts", "p7") >>)) >>),
      Obj(<< Prop("timestamp", JStr("t")),
             Prop("employees", JArr(<< Emp("7") >>)),
             Prop("banners", JArr(<< NewDoc("banners", "b7") >>)),
             Prop("patchNotes", JArr(<< NewDoc("patchNotes", "7.0.0"),
                                        NewDoc("patchNotes", "7.0.0") >>)) >>) }

----------------------------------------------------------------------------
(* State *)

VARIABLES
    store,      \* the documents of every table of db
    version,    \* the schema version the database is persisted with
    seedData,   \* the bootstrap dataset initDB loads
    initPc,     \* where every initDB call stands
    initCount,  \* the empCount every initDB call read
    initLog,    \* what every initDB call wrote to the console
    bkPc,       \* the number of tables the running backupDatabase has read
    bkReads,    \* the arrays it has read so far
    bkOut,      \* the text the last backupDatabase returned
    rsPc,       \* where the restoreDatabase call stands
    rsText,     \* the text the last restoreDatabase was called with
    rsData,     \* the parsed snapshot of the running restoreDatabase
    rsOut,      \* how the last restoreDatabase ended
    apiOut,     \* how the last api call ended
    nOps,       \* the number of calls made so far
    lq,         \* the live query of every table the component subscribed to
    txLog,      \* the write transactions requested so far, in the order requested
    txWork,     \* the write transaction that is running, with what it has written
    listOut,    \* what the last api.employees.list() resolved with
    currentPage,   \* the page the application shows
    currentBanner, \* the rotation index of the home banner
    toasts,     \* the notices on display, oldest first
    applied,    \* history: the schema versions applied to the database, in turn
    bkSeen,     \* history: the committed stores since backupDatabase began
    lastBoot,   \* history: the store the last undisturbed initDB resolved on
    clean       \* history: the initDB calls no write or other call ran beside

dbVars == << store, version, seedData >>

initVars == << initPc, initCount, initLog >>

bkVars == << bkPc, bkReads, bkOut >>

rsVars == << rsPc, rsText, rsData, rsOut >>

apiVars == << apiOut >>

txVars == << txLog, txWork, listOut >>

uiVars == << currentPage, currentBanner, toasts >>

histVars == << bkSeen, lastBoot, clean >>

vars ==
    << dbVars, initVars, bkVars, rsVars, apiVars, nOps, lq, txVars, uiVars,
       applied, histVars >>

\* new SigniaDatabase() on a browser that has no SigniaIntranetDB yet
Init ==
    /\ store = EmptyStore
    /\ version = 0
    /\ seedData = InitialData
    /\ initPc = [i \in InitCalls |-> "idle"]
    /\ initCount = [i \in InitCalls |-> 0]
    /\ initLog = [i \in InitCalls |-> "none"]
    /\ bkPc = 0
    /\ bkReads = << >>
    /\ bkOut = << >>
    /\ rsPc = "idle"
    /\ rsText = NotJSON
    /\ rsData = << >>
    /\ rsOut = "none"
    /\ apiOut = "none"
    /\ nOps = 0
    /\ currentPage = "home"
    /\ currentBanner = 0
    /\ toasts = << >>
    /\ lq = [t \in {} |-> Subscribed]
    /\ txLog = << >>
    /\ txWork = << >>
    /\ listOut = << >>
    /\ applied = << >>
    /\ bkSeen = {}
    /\ lastBoot = << >>
    /\ clean = [i \in InitCalls |-> FALSE]

InFlight(i) == initPc[i] \in {"opened", "counted"}

\* a write transaction that wrote to the tables touched has committed (none
\* when it was aborted): the live queries on those tables are notified
Publish(touched) ==
    lq' = [t \in DOMAIN lq |-> Notified(lq[t], t, touched)]

\* the database is opened, by db.open() or by the first operation on a table
\* (Dexie opens a database that is not open yet before it runs the operation)
OpenDB ==
    /\ version' = Open(version)
    /\ applied' = applied \o UpgradeSteps(version)

\* a write transaction of the api or of restoreDatabase ends with the store s2
Commit(s2) ==
    /\ store' = s2
    /\ OpenDB
    /\ bkSeen' = IF bkSeen = {} THEN {} ELSE bkSeen \cup {s2}
    /\ lastBoot' = IF s2 = store THEN lastBoot ELSE << >>
    /\ clean' = IF s2 = store THEN clean ELSE [i \in InitCalls |-> FALSE]
    /\ UNCHANGED seedData

----------------------------------------------------------------------------
(* initDB: src/services/db.ts:59-87 *)

\* await db.open()
InitOpen(i) ==
    /\ initPc[i] = "idle"
    /\ IF i = 1 THEN TRUE ELSE initPc[i - 1] # "idle"
    /\ nOps < MaxOps
    /\ nOps' = nOps + 1
    /\ initPc' = [initPc EXCEPT ![i] = "opened"]
    /\ OpenDB
    /\ clean' = [j \in InitCalls |->
                    IF j = i THEN \A o \in InitCalls : ~InFlight(o) ELSE FALSE]
    /\ UNCHANGED << store, seedData, initCount, initLog, bkVars, uiVars, rsVars,
                    apiVars, lq, txVars, bkSeen, lastBoot >>

\* const empCount = await db.employees.count()
InitCount(i) ==
    /\ initPc[i] = "opened"
    /\ initPc' = [initPc EXCEPT ![i] = "counted"]
    /\ initCount' = [initCount EXCEPT ![i] = Count(store, "employees")]
    /\ UNCHANGED << dbVars, initLog, bkVars, uiVars, rsVars, apiVars, nOps, lq,
                    txVars, applied, histVars >>

\* if (empCount === 0) { the seeding transaction }, any error is caught and
\* logged, and the call resolves
InitSeed(i) ==
    /\ initPc[i] = "counted"
    /\ initPc' = [initPc EXCEPT ![i] = "done"]
    /\ store' = InitDBStore(store, seedData, initCount[i])
    /\ initLog' = [initLog EXCEPT ![i] = InitDBLog(store, seedData, initCount[i])]
    /\ bkSeen' = IF bkSeen = {} THEN {} ELSE bkSeen \cup {store'}
    /\ lastBoot' = IF clean[i] THEN << store' >> ELSE << >>
    /\ Publish(IF initLog'[i] = "seeded" THEN TableNames ELSE {})
    /\ UNCHANGED << version, seedData, initCount, bkVars, uiVars, rsVars, apiVars, nOps,
                    txVars, applied, clean >>

----------------------------------------------------------------------------
(* backupDatabase: src/services/db.ts:90-109 *)

\* the k-th awaited toArray(); each is a read transaction of its own.  The
\* last one is followed at once by the timestamp and JSON.stringify.
BackupRead(k) ==
    /\ bkPc = k - 1
    /\ k = 1 => nOps < MaxOps
    /\ LET reads == Append(bkReads, ToArray(store, TxTables[k]))
       IN  IF k < NumTables
           THEN /\ bkPc' = k
                /\ bkReads' = reads
                /\ bkOut' = IF k = 1 THEN << >> ELSE bkOut
           ELSE /\ bkPc' = 0
                /\ bkReads' = << >>
                /\ bkOut' = << JSONStringify(BackupObject(reads)) >>
    /\ nOps' = IF k = 1 THEN nOps + 1 ELSE nOps
    /\ bkSeen' = IF k = 1 THEN {store} ELSE bkSeen
    /\ OpenDB
    /\ UNCHANGED << store, seedData, initVars, rsVars, uiVars, apiVars, lq, txVars,
                    lastBoot, clean >>

----------------------------------------------------------------------------
(* restoreDatabase: src/services/db.ts:111-149 *)

\* JSON.parse and the format check; a text that passes goes on to the
\* transaction, any other makes the call reject
RestoreDatabaseCheck(text) ==
    /\ rsPc = "idle"
    /\ nOps < MaxOps
    /\ nOps' = nOps + 1
    /\ rsText' = text
    /\ LET p == JSONParse(text)
       IN  IF ~p.ok
           THEN /\ rsOut' = "SyntaxError"
                /\ UNCHANGED << rsPc, rsData >>
           ELSE IF ~ValidBackup(p.data)
           THEN /\ rsOut' = "Invalid backup file format."
                /\ UNCHANGED << rsPc, rsData >>
           ELSE /\ rsOut' = "none"
                /\ rsPc' = "tx"
                /\ rsData' = p.data
    /\ UNCHANGED << dbVars, initVars, bkVars, apiVars, lq, txVars, applied,
                    histVars >>

\* the restore transaction; restoreDatabase returns true when it committed
\* and rethrows what aborted it
RestoreDatabaseTx ==
    /\ rsPc = "tx"
    /\ LET r == RestoreBody(store, rsData)
       IN  /\ Commit(Transaction(store, r))
           /\ Publish(IF r.ok THEN TableNames ELSE {})
           /\ rsOut' = IF r.ok THEN "true" ELSE "aborted"
    /\ rsPc' = "idle"
    /\ rsData' = << >>
    /\ UNCHANGED << initVars, bkVars, rsText, apiVars, nOps, txVars >>

\* restoreDatabase called from outside the component
RestoreCall(text) == RestoreDatabaseCheck(text) /\ UNCHANGED uiVars

RestoreTx == RestoreDatabaseTx /\ UNCHANGED uiVars

----------------------------------------------------------------------------
(* api: src/services/db.ts:152-169 *)

\* one more call of the service layer, made by a handler of the component
UiCall ==
    /\ nOps < MaxOps
    /\ nOps' = nOps + 1
    /\ UNCHANGED << initVars, bkVars, rsVars, txVars >>

\* one more call of the service layer
ApiCall == UiCall /\ UNCHANGED uiVars

\* table.add(doc) as one call: resolves, or rejects with ConstraintError
TableAdd(t, doc) ==
    LET r == Add(t, store[t], doc)
    IN  /\ Commit(IF r.ok THEN [store EXCEPT ![t] = r.rows] ELSE store)
        /\ Publish(IF r.ok THEN {t} ELSE {})
        /\ apiOut' = IF r.ok THEN "ok" ELSE "ConstraintError"

\* table.update(key, changes) as one call: resolves with 0 or 1
TableUpdate(t, key, changes) ==
    LET r == Update(t, store[t], key, changes)
    IN  /\ Commit([store EXCEPT ![t] = r.rows])
        /\ Publish(IF r.n = 0 THEN {} ELSE {t})
        /\ apiOut' = IF r.n = 0 THEN "updated0" ELSE "updated1"

\* table.delete(key) as one call: resolves whether or not the key was there
TableDelete(t, key) ==
    /\ Commit([store EXCEPT ![t] = Delete(t, store[t], key)])
    /\ Publish({t})
    /\ apiOut' = "ok"

\* (db as any)[table] of a name that is no table is undefined: the call throws
NoTable ==
    /\ apiOut' = "TypeError"
    /\ UNCHANGED << dbVars, lq, applied, histVars >>

ApiEmployeesAdd(emp) == ApiCall /\ TableAdd("employees", emp)

ApiEmployeesDelete(id) == ApiCall /\ TableDelete("employees", id)

ApiBannersAdd(b) == ApiCall /\ TableAdd("banners", b)

ApiBannersUpdate(id, updates) == ApiCall /\ TableUpdate("banners", id, updates)

ApiGenericAdd(table, item) ==
    /\ ApiCall
    /\ IF table \in TableNames THEN TableAdd(table, item) ELSE NoTable

ApiGenericUpdate(table, id, updates) ==
    /\ ApiCall
    /\ IF table \in TableNames THEN TableUpdate(table, id, updates) ELSE NoTable

\* (db as any)["constructor"] is the class SigniaDatabase, and its delete is
\* the static Dexie.delete(databaseName) it inherits: the call resolves, and
\* the database of that name is deleted, documents and schema
StaticDelete(name) ==
    /\ store' = (IF name = DBName THEN EmptyStore ELSE store)
    /\ version' = (IF name = DBName THEN 0 ELSE version)
    /\ bkSeen' = IF bkSeen = {} THEN {} ELSE bkSeen \cup {store'}
    /\ lastBoot' = IF store' = store THEN lastBoot ELSE << >>
    /\ clean' = IF store' = store THEN clean ELSE [i \in InitCalls |-> FALSE]
    /\ apiOut' = "ok"
    /\ UNCHANGED << seedData, lq, applied >>

ApiGenericDelete(table, id) ==
    /\ ApiCall
    /\ IF table \in TableNames THEN TableDelete(table, id)
       ELSE IF table = "constructor" THEN StaticDelete(id)
       ELSE NoTable

----------------------------------------------------------------------------

Next ==
    \/ \E i \in InitCalls : InitOpen(i)
    \/ \E i \in InitCalls : InitCount(i)
    \/ \E i \in InitCalls : InitSeed(i)
    \/ \E k \in 1..NumTables : BackupRead(k)
    \/ \E text \in RestoreTexts \cup Range(bkOut) : RestoreCall(text)
    \/ RestoreTx
    \/ \E id \in KeyInputs("employees") : ApiEmployeesAdd(NewDoc("employees", id))
    \/ \E id \in KeyInputs("employees") : ApiEmployeesDelete(id)
    \/ \E id \in KeyInputs("banners") : ApiBannersAdd(NewDoc("banners", id))
    \/ \E id \in KeyInputs("banners"), a \in BOOLEAN :
          ApiBannersUpdate(id, [active |-> a])
    \/ \E t \in ApiTables : \E id \in KeyInputs(t) : ApiGenericAdd(t, NewDoc(t, id))
    \/ \E t \in ApiTables : \E id \in KeyInputs(t) :
          ApiGenericUpdate(t, id, [v |-> "edited"])
    \/ \E t \in ApiTables : \E id \in KeyInputs(t) : ApiGenericDelete(t, id)

Spec == Init /\ [][Next]_vars

----------------------------------------------------------------------------
(* backupDatabase beside initDB and the writes of the api, on a browser    *)
(* that has no database yet.                                               *)

NextBackup ==
    \/ \E i \in InitCalls : InitOpen(i)
    \/ \E i \in InitCalls : InitCount(i)
    \/ \E i \in InitCalls : InitSeed(i)
    \/ \E k \in 1..NumTables : BackupRead(k)
    \/ \E id \in KeyInputs("employees") : ApiEmployeesAdd(NewDoc("employees", id))
    \/ \E id \in KeyInputs("employees") : ApiEmployeesDelete(id)
    \/ \E id \in KeyInputs("banners"), a \in BOOLEAN :
          ApiBannersUpdate(id, [active |-> a])

SpecBackup == Init /\ [][NextBackup]_vars

----------------------------------------------------------------------------
(* Seeding of a bootstrap dataset that repeats a key.  The dataset is       *)
(* maintained apart from the store, so the first run of initDB is checked   *)
(* on datasets in which one table lists a key twice.                        *)

\* data with the first row of table t listed again, with other content, at
\* the end (late) or right after itself
WithDuplicate(data, t, late) ==
    LET rows == data[t]
        again == Modified(rows[1], [v |-> "again"])
    IN  [data EXCEPT ![t] =
            IF late THEN Append(rows, again)
            ELSE << rows[1], again >> \o Tail(rows)]

BootData ==
    {InitialData}
    \cup { WithDuplicate(InitialData, t, late) : t \in TableNames, late \in BOOLEAN }

InitBoot ==
    /\ store = EmptyStore
    /\ version = 0
    /\ seedData \in BootData
    /\ initPc = [i \in InitCalls |-> "idle"]
    /\ initCount = [i \in InitCalls |-> 0]
    /\ initLog = [i \in InitCalls |-> "none"]
    /\ bkPc = 0
    /\ bkReads = << >>
    /\ bkOut = << >>
    /\ rsPc = "idle"
    /\ rsText = NotJSON
    /\ rsData = << >>
    /\ rsOut = "none"
    /\ apiOut = "none"
    /\ nOps = 0
    /\ currentPage = "home"
    /\ currentBanner = 0
    /\ toasts = << >>
    /\ lq = [t \in {} |-> Subscribed]
    /\ txLog = << >>
    /\ txWork = << >>
    /\ listOut = << >>
    /\ applied = << >>
    /\ bkSeen = {}
    /\ lastBoot = << >>
    /\ clean = [i \in InitCalls |-> FALSE]

NextBoot ==
    \/ \E i \in InitCalls : InitOpen(i)
    \/ \E i \in InitCalls : InitCount(i)
    \/ \E i \in InitCalls : InitSeed(i)

SpecBoot == InitBoot /\ [][NextBoot]_vars

----------------------------------------------------------------------------
(* Opening a database an earlier release left behind, and opens that fail. *)
(* The releases that declared version 1 or 2 only left databases persisted *)
(* at those versions; this release opens them with the three declarations *)
(* of db.ts:26-52.  The documents of such a database are those of a seeded *)
(* store, or none.  An upgrade runs in one versionchange transaction: when *)
(* the storage engine fails it at some declaration, the transaction is     *)
(* aborted and db.open() rejects.                                          *)

SeededStore == Transaction(EmptyStore, SeedBody(EmptyStore, InitialData))

\* await db.open() rejects because the upgrade failed at declaration n; the
\* catch of db.ts:84-86 logs the error and initDB resolves
InitOpenFails(i, n) ==
    /\ initPc[i] = "idle"
    /\ IF i = 1 THEN TRUE ELSE initPc[i - 1] # "idle"
    /\ nOps < MaxOps
    /\ n \in Range(UpgradeSteps(version))
    /\ nOps' = nOps + 1
    /\ initPc' = [initPc EXCEPT ![i] = "done"]
    /\ initLog' = [initLog EXCEPT ![i] = "failed"]
    /\ clean' = [j \in InitCalls |-> FALSE]
    /\ UNCHANGED << dbVars, initCount, bkVars, uiVars, rsVars, apiVars, lq, txVars,
                    applied, bkSeen, lastBoot >>

InitUpgrade ==
    /\ version \in 0..TargetVersion
    /\ applied = SelectSeq(Versions, LAMBDA n : n <= version)
    /\ store \in (IF version = 0 THEN {EmptyStore} ELSE {EmptyStore, SeededStore})
    /\ seedData = InitialData
    /\ initPc = [i \in InitCalls |-> "idle"]
    /\ initCount = [i \in InitCalls |-> 0]
    /\ initLog = [i \in InitCalls |-> "none"]
    /\ bkPc = 0
    /\ bkReads = << >>
    /\ bkOut = << >>
    /\ rsPc = "idle"
    /\ rsText = NotJSON
    /\ rsData = << >>
    /\ rsOut = "none"
    /\ apiOut = "none"
    /\ nOps = 0
    /\ currentPage = "home"
    /\ currentBanner = 0
    /\ toasts = << >>
    /\ lq = [t \in {} |-> Subscribed]
    /\ txLog = << >>
    /\ txWork = << >>
    /\ listOut = << >>
    /\ bkSeen = {}
    /\ lastBoot = << >>
    /\ clean = [i \in InitCalls |-> FALSE]

NextUpgrade ==
    \/ \E i \in InitCalls : InitOpen(i)
    \/ \E i \in InitCalls : \E n \in Range(Versions) : InitOpenFails(i, n)
    \/ \E i \in InitCalls : InitCount(i)
    \/ \E i \in InitCalls : InitSeed(i)
    \/ \E id \in KeyInputs("employees") : ApiEmployeesAdd(NewDoc("employees", id))
    \/ \E id \in KeyInputs("employees") : ApiEmployeesDelete(id)

SpecUpgrade == InitUpgrade /\ [][NextUpgrade]_vars

----------------------------------------------------------------------------
(* The generic calls of the service layer, db.ts:163-168, on a database    *)
(* that was initialized, and the initDB calls of later page loads: the     *)
(* table argument of a generic call is any string.                         *)

InitGeneric ==
    /\ store = SeededStore
    /\ version = TargetVersion
    /\ seedData = InitialData
    /\ initPc = [i \in InitCalls |-> "idle"]
    /\ initCount = [i \in InitCalls |-> 0]
    /\ initLog = [i \in InitCalls |-> "none"]
    /\ bkPc = 0
    /\ bkReads = << >>
    /\ bkOut = << >>
    /\ rsPc = "idle"
    /\ rsText = NotJSON
    /\ rsData = << >>
    /\ rsOut = "none"
    /\ apiOut = "none"
    /\ nOps = 0
    /\ currentPage = "home"
    /\ currentBanner = 0
    /\ toasts = << >>
    /\ lq = [t \in {} |-> Subscribed]
    /\ txLog = << >>
    /\ txWork = << >>
    /\ listOut = << >>
    /\ applied = Versions
    /\ bkSeen = {}
    /\ lastBoot = << >>
    /\ clean = [i \in InitCalls |-> FALSE]

NextGeneric ==
    \/ \E i \in InitCalls : InitOpen(i)
    \/ \E i \in InitCalls : InitCount(i)
    \/ \E i \in InitCalls : InitSeed(i)
    \/ \E t \in GenericTables : \E id \in KeyInputs(t) :
          ApiGenericAdd(t, NewDoc(t, id))
    \/ \E t \in GenericTables : \E id \in KeyInputs(t) :
          ApiGenericUpdate(t, id, [v |-> "edited"])
    \/ \E t \in GenericTables : \E id \in KeyInputs(t) : ApiGenericDelete(t, id)

SpecGeneric == InitGeneric /\ [][NextGeneric]_vars

----------------------------------------------------------------------------
(* The mounted component: src/App.tsx:49-110.  useAppController starts     *)
(* initDB in an effect and subscribes its eight live queries in the same   *)
(* render; the admin console then adds employees, deletes documents,       *)
(* toggles banners and restores backup files.                              *)

\* boot of App.tsx:62-68 is `await initDB(); setIsLoading(false)`: isLoading
\* is true from the first render until the initDB call of the component,
\* call 1, has resolved
isLoading == initPc[1] # "done"

\* renderPage returns the loading screen while isLoading and the module of
\* the current page after that
PageRendered == ~isLoading

\* a patch note as a backup file written by hand may list it: no date
NoDate(key) == [version |-> key, v |-> "file"]

\* the files restored while the component is mounted
LiveRestoreTexts ==
    { Obj(<< Prop("timestamp", JStr("t")),
             Prop("employees", JArr(<< Emp("7"), Emp("8") >>)),
             Prop("posts", JArr(<< NewDoc("posts", "p7") >>)) >>),
      Obj(<< Prop("timestamp", JStr("t")),
             Prop("employees", JArr(<< Emp("7") >>)),
             Prop("patchNotes", JArr(<< NoDate("7.0.0"), NoDate("7.0.1") >>)) >>),
      Obj(<< Prop("timestamp", JStr("t")),
             Prop("employees", JArr(<< Emp("7") >>)),
             Prop("banners", JArr(<< NewDoc("banners", "b7") >>)),
             Prop("patchNotes", JArr(<< NewDoc("patchNotes", "7.0.0"),
                                        NewDoc("patchNotes", "7.0.0") >>)) >>) }

\* the querier of the subscription to table t is executed: one read of the
\* table; its result is handed to the component, and when it throws the
\* component keeps what it had.  The queriers that are due are executed in
\* the order of the subscriptions, which is the order in which their read
\* transactions are requested.
LiveQueryRun(t) ==
    /\ t \in DOMAIN lq
    /\ lq[t].due
    /\ \A u \in DOMAIN lq : LivePlace(u) < LivePlace(t) => ~lq[u].due
    /\ LET r == Querier(t, store)
       IN  lq' = [lq EXCEPT ![t] =
                    IF r.ok
                    THEN [has |-> TRUE, res |-> r.val, due |-> FALSE,
                          err |-> FALSE, fired |-> lq[t].fired + 1]
                    ELSE [lq[t] EXCEPT !.due = FALSE, !.err = TRUE]]
    /\ OpenDB
    /\ UNCHANGED << store, seedData, initVars, bkVars, uiVars, rsVars, apiVars, nOps,
                    txVars, histVars >>

InitLive ==
    /\ store = EmptyStore
    /\ version = 0
    /\ seedData = InitialData
    /\ initPc = [i \in InitCalls |-> "idle"]
    /\ initCount = [i \in InitCalls |-> 0]
    /\ initLog = [i \in InitCalls |-> "none"]
    /\ bkPc = 0
    /\ bkReads = << >>
    /\ bkOut = << >>
    /\ rsPc = "idle"
    /\ rsText = NotJSON
    /\ rsData = << >>
    /\ rsOut = "none"
    /\ apiOut = "none"
    /\ nOps = 0
    /\ currentPage = "home"
    /\ currentBanner = 0
    /\ toasts = << >>
    /\ lq = [t \in LiveTables |-> Subscribed]
    /\ txLog = << >>
    /\ txWork = << >>
    /\ listOut = << >>
    /\ applied = << >>
    /\ bkSeen = {}
    /\ lastBoot = << >>
    /\ clean = [i \in InitCalls |-> FALSE]

\* the effect of App.tsx:62-68 runs once, so one initDB call is made
NextLive ==
    \/ InitOpen(1)
    \/ InitCount(1)
    \/ InitSeed(1)
    \/ \E t \in LiveTables : LiveQueryRun(t)
    \/ \E text \in LiveRestoreTexts : RestoreCall(text)
    \/ RestoreTx
    \/ \E id \in KeyInputs("employees") : ApiEmployeesAdd(NewDoc("employees", id))
    \/ \E id \in KeyInputs("banners"), a \in BOOLEAN :
          ApiBannersUpdate(id, [active |-> a])
    \/ \E t \in ApiTables : \E id \in KeyInputs(t) : ApiGenericDelete(t, id)

SpecLive == InitLive /\ [][NextLive]_vars

----------------------------------------------------------------------------
(* Write transactions, statement by statement.  The seeding of initDB and  *)
(* the restore are db.transaction('rw', the eight tables, body): the       *)
(* awaited statements of the body write inside the transaction, which      *)
(* commits when the body resolved and is rolled back when a statement      *)
(* rejected.  An api write is a transaction of one statement.  Write       *)
(* transactions on the same tables run one after the other, in the order   *)
(* in which they were requested; a read sees what is committed.            *)

Stmt(do, t, val) == [do |-> do, t |-> t, val |-> val]

\* the statements of db.ts:118-142: clear() of every table, followed by
\* bulkAdd(data.t) when data.t?.length
RECURSIVE RestoreStatements(_, _)
RestoreStatements(data, k) ==
    IF k > NumTables THEN << >>
    ELSE LET t == TxTables[k]
             val == Get(data, t)
         IN  << Stmt("clear", t, Undefined) >>
             \o (IF HasLength(val) THEN << Stmt("bulkAdd", t, val) >> ELSE << >>)
             \o RestoreStatements(data, k + 1)

\* the statements of db.ts:70-80: one bulkAdd for every table
SeedStatements(data) ==
    [ k \in 1..NumTables |->
        Stmt("bulkAdd", TxTables[k], JArr(SeedRows(data, TxTables[k]))) ]

\* a write transaction as it is requested
Request(op, t, val, data, who) ==
    [op |-> op, t |-> t, val |-> val, data |-> data, who |-> who,
     out |-> "queued", behind |-> 0]

Statements(req) ==
    CASE req.op = "restore" -> RestoreStatements(req.data, 1)
      [] req.op = "seed" -> SeedStatements(req.data)
      [] OTHER -> << Stmt(req.op, req.t, req.val) >>

\* one statement on the image s the transaction works on
Exec(stmt, s) ==
    CASE stmt.do = "clear" -> [ok |-> TRUE, st |-> [s EXCEPT ![stmt.t] = {}]]
      [] stmt.do = "delete" ->
            [ok |-> TRUE,
             st |-> [s EXCEPT ![stmt.t] = Delete(stmt.t, s[stmt.t], stmt.val.s)]]
      [] OTHER ->
            IF stmt.val.kind # "arr" THEN [ok |-> FALSE, st |-> s]
            ELSE LET r == BulkAdd(stmt.t, s[stmt.t], stmt.val.a)
                 IN  [ok |-> r.ok, st |-> [s EXCEPT ![stmt.t] = r.rows]]

Unfinished(log) == { m \in 1..Len(log) : log[m].out \in {"queued", "running"} }

Queued(log) == { m \in 1..Len(log) : log[m].out = "queued" }

\* mutation of NextInLine: the request made last runs first
NextInLineLast(log) == CHOOSE m \in Queued(log) : \A o \in Queued(log) : o <= m

\* the request that runs next: the one waiting longest
NextInLine(log) == CHOOSE m \in Queued(log) : \A o \in Queued(log) : m <= o

\* mutation of CommittedAfter: every statement is committed as it resolves
CommittedAfterEachStatement(s, w, finished) == w

\* the committed store after a statement of the running transaction left
\* the image w: the store as it was, until the body has resolved
CommittedAfter(s, w, finished) == IF finished THEN w ELSE s

\* db.transaction(...) or a table write is called: the transaction is requested
Enqueue(req) ==
    txLog' = Append(txLog, [req EXCEPT !.behind = Cardinality(Unfinished(txLog))])

\* the promise of the call that requested the transaction settles
Settle(req, ok) ==
    /\ initPc' = IF req.op = "seed"
                 THEN [initPc EXCEPT ![req.who] = "done"] ELSE initPc
    /\ initLog' = IF req.op = "seed"
                  THEN [initLog EXCEPT ![req.who] = IF ok THEN "seeded" ELSE "failed"]
                  ELSE initLog
    /\ rsPc' = IF req.op = "restore" THEN "idle" ELSE rsPc
    /\ rsOut' = IF req.op = "restore"
                THEN (IF ok THEN "true" ELSE "aborted") ELSE rsOut
    /\ rsData' = IF req.op = "restore" THEN << >> ELSE rsData
    /\ apiOut' = IF req.op \in {"add", "delete"}
                 THEN (IF ok THEN "ok" ELSE "ConstraintError") ELSE apiOut
    /\ UNCHANGED << initCount, rsText >>

\* if (empCount === 0) db.transaction(...) of initDB call i
SeedBegin(i) ==
    /\ initPc[i] = "counted"
    /\ IF initCount[i] = 0
       THEN /\ initPc' = [initPc EXCEPT ![i] = "queued"]
            /\ Enqueue(Request("seed", "", Undefined, seedData, i))
            /\ UNCHANGED initLog
       ELSE /\ initPc' = [initPc EXCEPT ![i] = "done"]
            /\ initLog' = [initLog EXCEPT ![i] = "skipped"]
            /\ UNCHANGED txLog
    /\ UNCHANGED << dbVars, initCount, bkVars, uiVars, rsVars, apiVars, nOps, lq,
                    txWork, listOut, applied, histVars >>

\* db.transaction(...) of the restoreDatabase call that passed the format check
RestoreBegin ==
    /\ rsPc = "tx"
    /\ rsPc' = "queued"
    /\ Enqueue(Request("restore", "", Undefined, rsData, 0))
    /\ UNCHANGED << dbVars, initVars, bkVars, uiVars, rsText, rsData, rsOut, apiVars,
                    nOps, lq, txWork, listOut, applied, histVars >>

\* api.employees.add(emp) is called
EmployeesAddRequest(emp) ==
    /\ nOps < MaxOps
    /\ nOps' = nOps + 1
    /\ apiOut' = "pending"
    /\ Enqueue(Request("add", "employees", JArr(<< emp >>), << >>, 0))
    /\ UNCHANGED << dbVars, initVars, bkVars, uiVars, rsVars, lq, txWork, listOut,
                    applied, histVars >>

\* api.employees.delete(id) is called
EmployeesDeleteRequest(id) ==
    /\ nOps < MaxOps
    /\ nOps' = nOps + 1
    /\ apiOut' = "pending"
    /\ Enqueue(Request("delete", "employees", JStr(id), << >>, 0))
    /\ UNCHANGED << dbVars, initVars, bkVars, uiVars, rsVars, lq, txWork, listOut,
                    applied, histVars >>

\* api.employees.list(): a read of the committed table; beside records
\* whether a write transaction was running
ApiEmployeesList ==
    /\ nOps < MaxOps
    /\ nOps' = nOps + 1
    /\ listOut' = << [rows |-> ToArray(store, "employees"),
                      beside |-> txWork # << >>] >>
    /\ OpenDB
    /\ UNCHANGED << store, seedData, initVars, bkVars, uiVars, rsVars, apiVars, lq,
                    txLog, txWork, histVars >>

\* the transaction that is next in line begins, on the committed store
TxStart ==
    /\ txWork = << >>
    /\ Queued(txLog) # {}
    /\ LET n == NextInLine(txLog)
       IN  /\ txWork' = << [n |-> n, k |-> 1, st |-> store, base |-> store] >>
           /\ txLog' = [txLog EXCEPT ![n].out = "running"]
    /\ OpenDB
    /\ UNCHANGED << store, seedData, initVars, bkVars, uiVars, rsVars, apiVars, nOps,
                    lq, listOut, histVars >>

\* the next statement of the running transaction resolves, or rejects and
\* the transaction is rolled back
TxStep ==
    /\ txWork # << >>
    /\ LET w == txWork[1]
           req == txLog[w.n]
       IN  /\ w.k <= Len(Statements(req))
           /\ LET r == Exec(Statements(req)[w.k], w.st)
              IN  IF r.ok
                  THEN /\ txWork' = << [w EXCEPT !.k = w.k + 1, !.st = r.st] >>
                       /\ Commit(CommittedAfter(store, r.st, FALSE))
                       /\ UNCHANGED << txLog, initVars, rsVars, apiVars, lq >>
                  ELSE /\ txWork' = << >>
                       /\ txLog' = [txLog EXCEPT ![w.n].out = "aborted"]
                       /\ Commit(store)
                       /\ Settle(req, FALSE)
                       /\ UNCHANGED lq
    /\ UNCHANGED << bkVars, uiVars, nOps, listOut >>

\* the body of the running transaction has resolved: it commits
TxEnd ==
    /\ txWork # << >>
    /\ LET w == txWork[1]
           req == txLog[w.n]
       IN  /\ w.k > Len(Statements(req))
           /\ txWork' = << >>
           /\ txLog' = [txLog EXCEPT ![w.n].out = "committed"]
           /\ Commit(CommittedAfter(store, w.st, TRUE))
           /\ Publish({ Statements(req)[k].t : k \in 1..Len(Statements(req)) })
           /\ Settle(req, TRUE)
    /\ UNCHANGED << bkVars, uiVars, nOps, listOut >>

\* the files restored
TxRestoreTexts ==
    { Obj(<< Prop("timestamp", JStr("t")),
             Prop("employees", JArr(<< Emp("7"), Emp("8") >>)),
             Prop("posts", JArr(<< NewDoc("posts", "p7") >>)) >>),
      Obj(<< Prop("timestamp", JStr("t")),
             Prop("employees", JArr(<< Emp("7") >>)),
             Prop("banners", JArr(<< NewDoc("banners", "b7") >>)),
             Prop("patchNotes", JArr(<< NewDoc("patchNotes", "7.0.0"),
                                        NewDoc("patchNotes", "7.0.0") >>)) >>) }

NextTx ==
    \/ \E i \in InitCalls : InitOpen(i)
    \/ \E i \in InitCalls : InitCount(i)
    \/ \E i \in InitCalls : SeedBegin(i)
    \/ \E text \in TxRestoreTexts : RestoreCall(text)
    \/ RestoreBegin
    \/ \E id \in KeyInputs("employees") : EmployeesAddRequest(NewDoc("employees", id))
    \/ \E id \in KeyInputs("employees") : EmployeesDeleteRequest(id)
    \/ ApiEmployeesList
    \/ TxStart
    \/ TxStep
    \/ TxEnd

SpecTx == Init /\ [][NextTx]_vars

----------------------------------------------------------------------------
(* The pages of the application after boot: src/App.tsx.  The banner of    *)
(* HomeModule rotates over the active banners the banners live query       *)
(* delivered; the handlers of AdminModule call the service layer from the  *)
(* rows the live queries delivered and report through performAction.  One  *)
(* page load is covered: a restore that succeeded reloads the page two     *)
(* seconds later.                                                          *)

\* b.active of a delivered row (undefined, which is falsy, when not recorded)
IsActive(b) == IF "active" \in DOMAIN b THEN b.active ELSE FALSE

\* Array.prototype.sort((a, b) => a.order - b.order) on the first k rows
RECURSIVE SortByOrderFrom(_, _)
SortByOrderFrom(rows, k) ==
    IF k = 0 THEN << >>
    ELSE LET sorted == SortByOrderFrom(rows, k - 1)
             at == Cardinality({ j \in 1..Len(sorted) :
                                   sorted[j].order <= rows[k].order })
         IN  SubSeq(sorted, 1, at) \o << rows[k] >>
             \o SubSeq(sorted, at + 1, Len(sorted))

\* store.banners.filter(b => b.active).sort((a, b) => a.order - b.order)
activeBanners ==
    LET act == SelectSeq(lq["banners"].res, IsActive)
    IN  SortByOrderFrom(act, Len(act))

\* the banner is rendered, and activeBanners[currentBanner] is a row
BannerRendered == currentPage = "home" /\ ~isLoading /\ Len(activeBanners) > 0

\* the pages the sidebar leads to
Pages == {"home", "admin"}

\* setCurrentPage(p): renderPage mounts the module of page p; the state of
\* HomeModule, currentBanner, begins at 0 with every mount
Navigate(p) ==
    /\ ~isLoading
    /\ p # currentPage
    /\ currentPage' = p
    /\ currentBanner' = 0
    /\ UNCHANGED << dbVars, initVars, bkVars, rsVars, apiVars, nOps, lq,
                    txVars, toasts, applied, histVars >>

\* the interval of the rotation effect fires: it runs while HomeModule is
\* mounted with more than one active banner
Tick ==
    /\ currentPage = "home" /\ ~isLoading
    /\ Len(activeBanners) > 1
    /\ currentBanner < Len(activeBanners)
    /\ currentBanner' = (currentBanner + 1) % Len(activeBanners)
    /\ UNCHANGED << dbVars, initVars, bkVars, rsVars, apiVars, nOps, lq,
                    txVars, currentPage, toasts, applied, histVars >>

Notice(message, type) == [message |-> message, type |-> type]

\* addToast(message, type)
addToast(message, type) == toasts' = Append(toasts, Notice(message, type))

\* performAction(action, successMsg) once action() has settled: resolved is
\* whether it resolved
performAction(resolved, successMsg) ==
    IF resolved
    THEN addToast(successMsg, "success")
    ELSE addToast("Operation failed. See console.", "error")

\* the timer addToast started removes the notice
ToastExpires ==
    /\ toasts # << >>
    /\ toasts' = Tail(toasts)
    /\ UNCHANGED << dbVars, initVars, bkVars, rsVars, apiVars, nOps, lq,
                    txVars, currentPage, currentBanner, applied, histVars >>

\* a click on the Active/Inactive button of the k-th banner row of the admin
\* console: api.banners.update(b.id, { active: !b.active }) of the row b as
\* it was delivered
ToggleBanner(k) ==
    /\ currentPage = "admin" /\ ~isLoading
    /\ k \in 1..Len(lq["banners"].res)
    /\ LET b == lq["banners"].res[k]
       IN  /\ UiCall
           /\ TableUpdate("banners", b.id, [active |-> ~IsActive(b)])
           /\ performAction(TRUE, "Banner updated")
    /\ UNCHANGED << currentPage, currentBanner >>

\* the tables whose rows the admin console lists with a delete button
DeleteTables == {"employees", "posts"}

\* handleDelete(table, id) of the k-th row delivered for that table
HandleDelete(table, k) ==
    /\ currentPage = "admin" /\ ~isLoading
    /\ k \in 1..Len(lq[table].res)
    /\ UiCall
    /\ TableDelete(table, lq[table].res[k].id)
    /\ performAction(TRUE, "Item deleted")
    /\ UNCHANGED << currentPage, currentBanner >>

\* the ids Date.now().toString() gives the employees of the form: two
\* clicks within a millisecond get the same
FormIds == {"1700000000000"}

\* handleAddEmp with the form filled in (named) or not
HandleAddEmp(named, id) ==
    /\ currentPage = "admin" /\ ~isLoading
    /\ UiCall
    /\ IF named
       THEN TableAdd("employees", [id |-> id, v |-> "form"])
       ELSE UNCHANGED << dbVars, lq, applied, histVars, apiOut >>
    /\ performAction(named /\ apiOut' = "ok", "Employee added successfully")
    /\ UNCHANGED << currentPage, currentBanner >>

\* the files chosen for a restore in the admin console
UIRestoreTexts ==
    { NotJSON,
      Obj(<< Prop("timestamp", JStr("t")),
             Prop("employees", JArr(<< Emp("7") >>)),
             Prop("banners", JArr(<< NewDoc("banners", "b7") >>)) >>) }

\* handleRestore: reader.onload calls restoreDatabase(text)
HandleRestore(text) ==
    /\ currentPage = "admin" /\ ~isLoading
    /\ RestoreDatabaseCheck(text)
    /\ IF rsPc' # "tx"
       THEN addToast("Restore failed. Invalid file.", "error")
       ELSE UNCHANGED toasts
    /\ UNCHANGED << currentPage, currentBanner >>

\* the restore transaction ends and reader.onload goes on
HandleRestoreTx ==
    /\ RestoreDatabaseTx
    /\ IF rsOut' = "true"
       THEN addToast("Database restored successfully. Please refresh.", "success")
       ELSE addToast("Restore failed. Invalid file.", "error")
    /\ UNCHANGED << currentPage, currentBanner >>

\* the application after boot on a new browser: initDB has seeded the
\* store and every live query has delivered the seeded rows
InitUI ==
    /\ store = SeededStore
    /\ version = TargetVersion
    /\ seedData = InitialData
    /\ initPc = [i \in InitCalls |-> IF i = 1 THEN "done" ELSE "idle"]
    /\ initCount = [i \in InitCalls |-> 0]
    /\ initLog = [i \in InitCalls |-> IF i = 1 THEN "seeded" ELSE "none"]
    /\ bkPc = 0
    /\ bkReads = << >>
    /\ bkOut = << >>
    /\ rsPc = "idle"
    /\ rsText = NotJSON
    /\ rsData = << >>
    /\ rsOut = "none"
    /\ apiOut = "none"
    /\ nOps = 1
    /\ currentPage = "home"
    /\ currentBanner = 0
    /\ toasts = << >>
    /\ lq = [t \in LiveTables |->
               [has |-> TRUE, res |-> Querier(t, SeededStore).val, due |-> FALSE,
                err |-> FALSE, fired |-> 1]]
    /\ txLog = << >>
    /\ txWork = << >>
    /\ listOut = << >>
    /\ applied = Versions
    /\ bkSeen = {}
    /\ lastBoot = << SeededStore >>
    /\ clean = [i \in InitCalls |-> i = 1]

NextUI ==
    \/ \E p \in Pages : Navigate(p)
    \/ Tick
    \/ ToastExpires
    \/ \E t \in LiveTables : LiveQueryRun(t)
    \/ \E k \in 1..NumTables : ToggleBanner(k)
    \/ \E t \in DeleteTables : \E k \in 1..NumTables : HandleDelete(t, k)
    \/ \E named \in BOOLEAN : \E id \in FormIds : HandleAddEmp(named, id)
    \/ \E text \in UIRestoreTexts : HandleRestore(text)
    \/ HandleRestoreTx

SpecUI == InitUI /\ [][NextUI]_vars

----------------------------------------------------------------------------
(* Vocabulary of the properties *)

Counts(s) == [ t \in TableNames |-> Cardinality(s[t]) ]

\* the step in which initDB call i leaves its if-statement and resolves
SeedStep(i) == initPc[i] = "counted" /\ initPc'[i] = "done"

\* the step in which the restore transaction ends
RestoreTxStep == rsPc = "tx" /\ rsPc' = "idle"

\* the text has a property of that name
HasProp(text, name) ==
    \E j \in 1..Len(text.fields) : text.fields[j].name = name

PropOf(text, name) ==
    (CHOOSE p \in Range(text.fields) : p.name = name).val

\* the snapshot carries a timestamp
HasTimestamp(text) ==
    /\ text.valid
    /\ HasProp(text, "timestamp")
    /\ PropOf(text, "timestamp").kind = "str"
    /\ PropOf(text, "timestamp").s # ""

\* the snapshot carries an employees array with at least one document
HasEmployees(text) ==
    /\ text.valid
    /\ HasProp(text, "employees")
    /\ PropOf(text, "employees").kind = "arr"
    /\ Len(PropOf(text, "employees").a) > 0

\* the documents the snapshot lists for table t
SnapshotArray(text, t) ==
    IF text.valid /\ HasProp(text, t) /\ PropOf(text, t).kind = "arr"
    THEN PropOf(text, t).a
    ELSE << >>

SnapshotRows(text, t) == Range(SnapshotArray(text, t))

\* some array of the snapshot lists a key twice
RepeatsKey(text) ==
    \E t \in TableNames :
        LET a == SnapshotArray(text, t)
        IN  \E j, m \in 1..Len(a) : j < m /\ KeyOf(t, a[j]) = KeyOf(t, a[m])

RestoreErrors == {"SyntaxError", "Invalid backup file format."}

\* the position of the first document of the list that has that key
FindFirst(t, rows, key) ==
    CHOOSE j \in 1..Len(rows) :
        /\ KeyOf(t, rows[j]) = key
        /\ \A m \in 1..(j - 1) : KeyOf(t, rows[m]) # key

----------------------------------------------------------------------------
(* Properties *)

\* C1: an initDB call that runs after an earlier initDB call has resolved,
\* with no write and no other call beside either of them, leaves every one of
\* the eight collections with the number of documents the earlier call left.
C1_RepeatedBootKeepsCounts ==
    [][ \A j \in InitCalls :
          (SeedStep(j) /\ clean[j] /\ lastBoot # << >>)
          => Counts(store') = Counts(lastBoot[1]) ]_vars

\* C1 witness: two calls in sequence, the first one seeded the empty store,
\* the second one has resolved on the seeded store.
C1_Witness ==
    /\ initPc[1] = "done" /\ initLog[1] = "seeded"
    /\ initPc[2] = "done" /\ clean[2]
    /\ lastBoot = << store >>
    /\ Count(store, "employees") = Len(INITIAL_EMPLOYEES)

\* C2: initDB runs the seeding transaction exactly when the employee count it
\* read is 0, that count is the size of employees when it was read, and the
\* seeding step is all or nothing: every collection gains its bootstrap rows
\* or none changes; a call that read a non-zero count changes nothing.
C2_SeedIffEmptyAllOrNothing ==
    [][ \A i \in InitCalls :
          /\ (initPc[i] = "opened" /\ initPc'[i] = "counted")
             => (initCount'[i] = 0 <=> store["employees"] = {})
          /\ SeedStep(i)
             => /\ initLog'[i] = "skipped" <=> initCount[i] # 0
                /\ initCount[i] # 0 => store' = store
                /\ initLog'[i] = "seeded"
                   => \A t \in TableNames :
                         store'[t] = store[t] \cup Range(seedData[t])
                /\ initLog'[i] = "failed" => store' = store ]_vars

\* C2 witness: two calls both read an empty employees collection; one seeded
\* all eight collections, the seeding of the other was rolled back.
C2_Witness ==
    /\ \E i, j \in InitCalls : initLog[i] = "seeded" /\ initLog[j] = "failed"
    /\ \A t \in TableNames : store[t] = Range(InitialData[t])

\* C3: when the seeding transaction of an initDB call failed, nothing of it is
\* committed, and the next initDB call (run right after it, nothing in
\* between) finds every collection empty, seeds again and succeeds.
C3_RetryAfterFailedSeedingSucceeds ==
    [][ \A i \in InitCalls :
          /\ (SeedStep(i) /\ initLog'[i] = "failed") => store' = store
          /\ (SeedStep(i) /\ clean[i] /\ lastBoot # << >>
                /\ \E j \in InitCalls : j = i - 1 /\ initLog[j] = "failed")
             => (store = EmptyStore /\ initLog'[i] = "seeded") ]_vars

\* C4: after the first initDB call on the empty store has resolved, every key
\* listed in the bootstrap data of any of the eight collections is stored
\* exactly once, with the content of its first occurrence in the list.
C4_RepeatedBootstrapKeyFirstWins ==
    (\E i \in InitCalls : initPc[i] = "done")
    => \A t \in TableNames : \A k \in 1..Len(seedData[t]) :
          { d \in store[t] : KeyOf(t, d) = KeyOf(t, seedData[t][k]) }
          = { seedData[t][FindFirst(t, seedData[t], KeyOf(t, seedData[t][k]))] }

\* C5: restoreDatabase called with a text that has neither a timestamp nor a
\* non-empty employees array ends with an error, never reaches its
\* transaction, and leaves the eight collections as they were.
C5_RestoreWithoutTimestampAndEmployeesRejected ==
    [][ /\ \A text \in RestoreTexts :
             (RestoreCall(text) /\ ~HasTimestamp(text) /\ ~HasEmployees(text))
             => (rsPc' = "idle" /\ rsOut' \in RestoreErrors /\ store' = store)
        /\ RestoreTxStep => (HasTimestamp(rsText) \/ HasEmployees(rsText)) ]_vars

\* C5 witness: such a text was rejected on a store that holds the bootstrap rows.
C5_Witness ==
    /\ rsPc = "idle" /\ rsOut = "Invalid backup file format."
    /\ ~HasTimestamp(rsText) /\ ~HasEmployees(rsText)
    /\ \A t \in TableNames : store[t] = Range(InitialData[t])

\* C6: restoreDatabase goes on to its transaction only for a text that has a
\* timestamp and a non-empty employees array; any other text is rejected with
\* an error before a collection is cleared.
C6_RestoreNeedsTimestampAndNonEmptyEmployees ==
    [][ /\ \A text \in RestoreTexts :
             (RestoreCall(text) /\ ~(HasTimestamp(text) /\ HasEmployees(text)))
             => (rsPc' = "idle" /\ rsOut' \in RestoreErrors /\ store' = store)
        /\ RestoreTxStep => (HasTimestamp(rsText) /\ HasEmployees(rsText)) ]_vars

\* C7: when the restore transaction commits, every collection holds exactly
\* the documents of its array in the text restoreDatabase was called with,
\* and a collection whose array is missing or empty is empty.
C7_RestoreReplaces ==
    [][ (RestoreTxStep /\ rsOut' = "true")
        => \A t \in TableNames : store'[t] = SnapshotRows(rsText, t) ]_vars

\* C7 witness: a store that held the bootstrap rows was restored from a
\* snapshot with two employees and one post, and holds exactly those.
C7_Witness ==
    /\ rsPc = "idle" /\ rsOut = "true"
    /\ \E i \in InitCalls : initLog[i] = "seeded"
    /\ store["employees"] = {Emp("7"), Emp("8")}
    /\ store["posts"] = {NewDoc("posts", "p7")}
    /\ store["banners"] = {} /\ store["patchNotes"] = {}

\* C8: the restore transaction ends committed or aborted; when it aborts,
\* restoreDatabase rejects and all eight collections are as before the
\* restore; a snapshot array that lists a key twice makes it abort.
C8_FailedRestoreRollsBack ==
    [][ RestoreTxStep
        => /\ rsOut' \in {"true", "aborted"}
           /\ rsOut' = "aborted" => store' = store
           /\ RepeatsKey(rsText) => rsOut' = "aborted" ]_vars

\* C8 witness: a restore whose last array repeats a key was aborted on a
\* store that holds the bootstrap rows.
C8_Witness ==
    /\ rsPc = "idle" /\ rsOut = "aborted" /\ RepeatsKey(rsText)
    /\ \A t \in TableNames : store[t] = Range(InitialData[t])

\* C9: restoreDatabase called with the text backupDatabase returned, the
\* store not having changed since that backup began, passes the format check,
\* commits, and leaves every collection as it was.
C9_BackupThenRestoreIsIdentity ==
    [][ /\ \A text \in Range(bkOut) :
             (RestoreCall(text) /\ bkSeen = {store}) => rsPc' = "tx"
        /\ (RestoreTxStep /\ bkOut = << rsText >> /\ bkSeen = {store})
           => (rsOut' = "true" /\ store' = store) ]_vars

\* C9 witness: the backup of a non-empty store was restored onto it.
C9_Witness ==
    /\ rsPc = "idle" /\ rsOut = "true" /\ bkOut = << rsText >>
    /\ bkSeen = {store}
    /\ store["employees"] # {} /\ store["patchNotes"] # {}

\* C10: the text backupDatabase returns lists, for all eight collections, the
\* contents of one single committed store among those that existed from the
\* beginning of the backup on.
C10_BackupIsOneCommittedState ==
    bkOut # << >>
    => \E s \in bkSeen : \A t \in TableNames : SnapshotRows(bkOut[1], t) = s[t]

\* the steps of the sequence are strictly ascending
Ascending(seq) == \A j, m \in 1..Len(seq) : j < m => seq[j] < seq[m]

\* the step in which initDB call i leaves await db.open()
OpenStep(i) == initPc[i] = "idle" /\ initPc'[i] # "idle"

C12_FailedMigrationReachesCaller ==
    [][ \A i \in InitCalls : \A n \in Range(Versions) :
          InitOpenFails(i, n)
          => /\ initPc'[i] # "done"
             /\ version' = (IF n = UpgradeSteps(version)[1] THEN version ELSE n - 1)
             /\ n \notin Range(applied') ]_vars

\* the step commits a write that adds exactly one document to table t
AddedOne(t) ==
    /\ store[t] \subseteq store'[t]
    /\ Cardinality(store'[t] \ store[t]) = 1

\* the step hands a result of the live query on table t to the component
CallbackStep(t) == lq'[t].fired = lq[t].fired + 1

\* the live query on table t has no execution due and its querier did not throw
Settled(sub) == ~sub.due /\ ~sub.err

C14_LiveResultIsCommittedAndCurrent ==
    [][ \A t \in DOMAIN lq :
          /\ CallbackStep(t) => lq'[t].res = Querier(t, store).val
          /\ (RestoreTxStep /\ rsOut' = "aborted") => lq'[t] = lq[t]
          /\ ~lq'[t].due
             => /\ lq'[t].has
                /\ Querier(t, store').ok
                /\ lq'[t].res = Querier(t, store').val ]_vars

\* the store holds what the last restoreDatabase call loaded, nothing else
StoreAsRestored ==
    /\ rsPc = "idle" /\ rsOut = "true"
    /\ \A t \in TableNames : store[t] = SnapshotRows(rsText, t)

\* C15: the commit of a restore makes the live query of every one of the
\* eight collections due, and while the store is as restored a live query
\* with no execution due has handed over the restored documents of its
\* collection.
C15_RestoreReachesEveryLiveQuery ==
    [][ /\ (RestoreTxStep /\ rsOut' = "true")
           => \A t \in DOMAIN lq : lq'[t].due
        /\ StoreAsRestored'
           => \A t \in DOMAIN lq :
                 ~lq'[t].due
                 => (lq'[t].has /\ Range(lq'[t].res) = SnapshotRows(rsText', t)) ]_vars

\* the whole write of a request, applied at once to the store s
AtomicBody(req, s) ==
    CASE req.op = "restore" -> RestoreBody(s, req.data)
      [] req.op = "seed" -> SeedBody(s, req.data)
      [] req.op = "add" ->
            LET r == Add(req.t, s[req.t], req.val.a[1])
            IN  [ok |-> r.ok, st |-> [s EXCEPT ![req.t] = r.rows]]
      [] OTHER ->
            [ok |-> TRUE,
             st |-> [s EXCEPT ![req.t] = Delete(req.t, s[req.t], req.val.s)]]

\* the step in which a write transaction begins
TxBeginStep == txWork = << >> /\ txWork' # << >>

\* the step in which the running write transaction commits or is rolled back
TxFinishStep == txWork # << >> /\ txWork' = << >>

C17_NoPartialStateVisible ==
    [][ /\ txWork' # << >> => store' = txWork'[1].base
        /\ TxFinishStep
           => \/ store' = txWork[1].base
              \/ /\ store' = txWork[1].st
                 /\ txWork[1].k > Len(Statements(txLog[txWork[1].n]))
        /\ (txWork # << >> /\ listOut' # listOut)
           => listOut'[1].rows = ToArray(txWork[1].base, "employees")
        /\ \A i \in InitCalls :
              (txWork # << >> /\ initPc[i] = "opened" /\ initPc'[i] = "counted")
              => initCount'[i] = Count(txWork[1].base, "employees") ]_vars

\* C17 witness: a restore has cleared and reloaded employees and cleared
\* banners inside its transaction; api.employees.list() called beside it
\* resolved with the six bootstrap employees.
C17_Witness ==
    /\ txWork # << >>
    /\ txLog[txWork[1].n].op = "restore"
    /\ txWork[1].st["employees"] = {Emp("7"), Emp("8")}
    /\ txWork[1].st["banners"] = {}
    /\ listOut # << >>
    /\ listOut[1].beside
    /\ Range(listOut[1].rows) = Range(INITIAL_EMPLOYEES)

\* no two documents of a table have the same primary key
UniqueKeys(s) ==
    \A t \in TableNames : \A d, e \in s[t] : KeyOf(t, d) = KeyOf(t, e) => d = e

\* the step is an api add of a document with that key to table t
AddCall(t, key) ==
    \/ t = "employees" /\ ApiEmployeesAdd(NewDoc(t, key))
    \/ t = "banners" /\ ApiBannersAdd(NewDoc(t, key))
    \/ t \in ApiTables /\ ApiGenericAdd(t, NewDoc(t, key))

\* the step is an api update of the document with that key in table t
UpdateCall(t, key) ==
    \/ t = "banners" /\ \E a \in BOOLEAN : ApiBannersUpdate(key, [active |-> a])
    \/ t \in ApiTables /\ ApiGenericUpdate(t, key, [v |-> "edited"])

\* C18: in every reachable state no collection holds two documents with the
\* same primary key; an api add (employees, banners, generic) of a document
\* whose key is in the collection rejects with the duplicate-key error
\* (ConstraintError) and leaves the store as it was, the stored document
\* included.
C18_KeysUniqueAddRejectsDuplicate ==
    [][ /\ UniqueKeys(store')
        /\ \A t \in TableNames : \A key \in KeyInputs(t) :
              (AddCall(t, key) /\ key \in KeysOf(t, store[t]))
              => (apiOut' = "ConstraintError" /\ store' = store) ]_vars

\* C18 witness: on the seeded store an add of an employee with id 1 was
\* rejected, and the bootstrap employee 1 is stored as before.
C18_Witness ==
    /\ apiOut = "ConstraintError"
    /\ \A t \in TableNames : store[t] = Range(InitialData[t])
    /\ NewDoc("employees", "1") \notin store["employees"]

\* C19: api.banners.update and api.generic.update called with a key that is
\* not in the collection reject with a not-found error and leave the
\* collection as it was.
C19_UpdateOfAbsentKeyRejects ==
    [][ \A t \in TableNames : \A key \in KeyInputs(t) :
          (UpdateCall(t, key) /\ key \notin KeysOf(t, store[t]))
          => (apiOut' = "NotFoundError" /\ store' = store) ]_vars

\* the step executes the querier of a live query, calls the api or calls
\* restoreDatabase
StoreCallStep ==
    \/ \E t \in DOMAIN lq : lq[t].due /\ ~lq'[t].due
    \/ nOps' # nOps /\ initPc' = initPc

\* C20: a live-query read, an api call or a restore made before the initDB
\* call of the component has resolved is not executed: it is rejected with
\* a store-unavailable error, no result is handed over and the store is not
\* touched.
C20_NoStoreCallBeforeInitResolved ==
    [][ (StoreCallStep /\ initPc[1] # "done")
        => /\ store' = store
           /\ \A t \in DOMAIN lq : lq'[t].has = lq[t].has
           /\ \/ apiOut' = "StoreUnavailableError"
              \/ rsOut' = "StoreUnavailableError"
              \/ \E t \in DOMAIN lq : lq'[t].err ]_vars

\* the step in which the open or the seeding transaction of initDB call i
\* fails
InitFailStep(i) == initLog[i] # "failed" /\ initLog'[i] = "failed"

\* C21: a failure on the write path reaches the caller: when the open or the
\* seeding transaction of an initDB call fails, the call does not resolve
\* (its promise rejects), and when restoreDatabase fails at the parse, at the
\* format check or in its transaction, its promise rejects with that error.
C21_WriteFailuresReachCaller ==
    [][ /\ \A i \in InitCalls : InitFailStep(i) => initPc'[i] # "done"
        /\ (RestoreTxStep /\ ~RestoreBody(store, rsData).ok)
           => rsOut' = "aborted"
        /\ \A text \in RestoreTexts :
              (RestoreCall(text) /\ rsPc' = "idle") => rsOut' \in RestoreErrors
      ]_vars

\* C22: a failed initialization blocks the application for good: in every
\* state in which the open or the seeding of the initDB call of the component
\* has failed, isLoading is still true and no page module is rendered.
C22_FailedInitKeepsLoading ==
    initLog[1] = "failed" => (isLoading /\ ~PageRendered)

\* the step is a generic call with a table string that names no collection
OtherTableCall ==
    \E t \in GenericTables \ TableNames : \E id \in KeyInputs(t) :
        \/ ApiGenericAdd(t, NewDoc(t, id))
        \/ ApiGenericUpdate(t, id, [v |-> "edited"])
        \/ ApiGenericDelete(t, id)

\* C23: api.generic.add/update/delete called with a table string that is not
\* one of the eight collection names ends with an error for the caller and
\* leaves every collection and the persisted schema version as they were.
C23_GenericCallsOnCollectionsOnly ==
    [][ OtherTableCall
        => (apiOut' = "TypeError" /\ store' = store /\ version' = version)
      ]_vars

\* C24: whatever api calls were made before it, an initDB call that counts no
\* employees, and beside which no other call runs, seeds successfully: when
\* it resolves, employees is not empty and every collection holds all of its
\* bootstrap rows.
C24_SeedingOnEmptyEmployeesSucceeds ==
    [][ \A i \in InitCalls :
          (SeedStep(i) /\ clean[i] /\ initCount[i] = 0)
          => /\ initLog'[i] = "seeded"
             /\ store'["employees"] # {}
             /\ \A t \in TableNames : Range(seedData[t]) \subseteq store'[t]
      ]_vars

\* the seeding transaction initDB call i requested has ended
SeedEnded(i) ==
    \E m \in 1..Len(txLog) :
        /\ txLog[m].op = "seed" /\ txLog[m].who = i
        /\ txLog[m].out \in {"committed", "aborted"}

\* C25: when two initDB calls, the only calls made, both counted no
\* employees and the seeding transactions of both have ended, every
\* collection holds exactly its bootstrap rows, each key once, and both
\* calls have resolved: one seeded, the other was rolled back.
C25_ConcurrentBootsSeedOnce ==
    \A i, j \in InitCalls :
        (i # j /\ nOps = 2 /\ initCount[i] = 0 /\ initCount[j] = 0
           /\ SeedEnded(i) /\ SeedEnded(j))
        => /\ \A t \in TableNames : store[t] = Range(SeedRows(seedData, t))
           /\ UniqueKeys(store)
           /\ initPc[i] = "done" /\ initPc[j] = "done"
           /\ {initLog[i], initLog[j]} = {"seeded", "failed"}

\* C25 witness: both calls counted 0, the second requested its transaction
\* while that of the first had not ended, both have ended and the store
\* holds one copy of the bootstrap rows.
C25_Witness ==
    /\ nOps = 2 /\ initCount[1] = 0 /\ initCount[2] = 0
    /\ SeedEnded(1) /\ SeedEnded(2)
    /\ Len(txLog) = 2 /\ txLog[2].behind = 1
    /\ Cardinality(store["employees"]) = Len(INITIAL_EMPLOYEES)
    /\ initPc[1] = "done" /\ initPc[2] = "done"

\* the employees no reportsTo is recorded for
Roots(emps) == { e \in emps : "reportsTo" \notin DOMAIN e }

\* what d3.stratify() of App.tsx:423 needs of the employees: one root, and
\* the parent of every other employee among them
SingleRootedTree(emps) ==
    /\ Cardinality(Roots(emps)) = 1
    /\ \A e \in emps \ Roots(emps) : e.reportsTo \in KeysOf("employees", emps)

\* C26: in every state in which the employees collection holds a document,
\* exactly one employee has no reportsTo and the reportsTo of every other
\* employee is the id of an employee of the collection.
C26_EmployeesFormSingleRootedTree ==
    store["employees"] # {} => SingleRootedTree(store["employees"])

\* the step is one of the eight reads of backupDatabase
BackupStep == bkPc' # bkPc

C27_CurrentBannerIsValidIndex ==
    BannerRendered => currentBanner \in 0..(Len(activeBanners) - 1)

\* the stored banners that have the id of the row b
Stored(b) == { d \in store["banners"] : d.id = b.id }

\* the step changes nothing but the active field of the banner of that id
OnlyActiveOf(b) ==
    /\ \A t \in TableNames \ {"banners"} : store'[t] = store[t]
    /\ Cardinality(store'["banners"]) = Cardinality(store["banners"])
    /\ \A d \in store["banners"] \ Stored(b) : d \in store'["banners"]
    /\ \A d \in Stored(b) :
          \E e \in store'["banners"] : e = Modified(d, [active |-> e.active])

\* C28: a click on the toggle of a banner changes nothing in the store but
\* the active field of that banner, and it inverts the stored value of the
\* field, also when it comes before the live query has delivered the
\* result of the click before it.
C28_ToggleInvertsStoredActive ==
    [][ \A k \in 1..NumTables :
          ToggleBanner(k)
          => LET b == lq["banners"].res[k]
             IN  /\ OnlyActiveOf(b)
                 /\ \A d \in Stored(b) :
                       Modified(d, [active |-> ~IsActive(d)]) \in store'["banners"]
      ]_vars

\* the notice the step added
Added == toasts'[Len(toasts')]

\* C30: a step of performAction adds one notice; a success notice says that
\* the store operation took effect (the banner has the requested flag, the
\* row is deleted, the employee is stored), an error notice comes with an
\* unchanged store.
C30_NoticesAreTruthful ==
    [][ /\ \A k \in 1..NumTables :
              ToggleBanner(k)
              => LET b == lq["banners"].res[k]
                 IN  /\ Len(toasts') = Len(toasts) + 1
                     /\ Added.type = "success"
                        => \E d \in store'["banners"] :
                              d.id = b.id /\ IsActive(d) = ~IsActive(b)
                     /\ Added.type = "error" => store' = store
        /\ \A t \in DeleteTables : \A k \in 1..NumTables :
              HandleDelete(t, k)
              => /\ Len(toasts') = Len(toasts) + 1
                 /\ Added.type = "success"
                    => lq[t].res[k].id \notin KeysOf(t, store'[t])
                 /\ Added.type = "error" => store' = store
        /\ \A named \in BOOLEAN : \A id \in FormIds :
              HandleAddEmp(named, id)
              => /\ Len(toasts') = Len(toasts) + 1
                 /\ Added.type = "success"
                    => [id |-> id, v |-> "form"] \in store'["employees"]
                 /\ Added.type = "error" => store' = store
      ]_vars

====
